---- MODULE Spec2Model ----
(***************************************************************************)
(* A model of unit-conversion-mcp: the conversion engine                   *)
(* (crates/mcp_primitives/src/tools.rs) and the stdin/stdout transport     *)
(* loop (src/main.rs).                                                     *)
(*                                                                         *)
(* Numbers.  The engine computes in f64, and so does the model: a number   *)
(* is an IEEE-754 binary64 value (sign, 53-bit mantissa, exponent), every  *)
(* operation computes the exact result and rounds it to nearest, ties to   *)
(* even, and a decimal literal of the source (0.3048, 6894.76) is the f64  *)
(* nearest to it.  The expressions are those of the source, in the same    *)
(* order.  Infinities, NaN, subnormal numbers and the sign of zero are     *)
(* outside the model: no value of the model comes near them.               *)
(*                                                                         *)
(* Text.  A text payload is modelled by its words: the words of the        *)
(* message in order, punctuation and line breaks dropped, with the         *)
(* interpolated values (unit names as given, category names, the           *)
(* deserialisation error) in their places; the success payload is the JSON *)
(* object that is serialised.  A number too large for f64 (serialised as   *)
(* null) does not occur within the model's values.                         *)
(*                                                                         *)
(* Three specifications: Spec calls execute (once, then again with the     *)
(* result or with recased names), UnitSpec applies to_base_unit and        *)
(* from_base_unit, MainSpec runs the loop of main over the input lines.    *)
(***************************************************************************)
EXTENDS Integers, Sequences, FiniteSets, TLC

VARIABLES
    arguments,   \* execute: the Option<Value> handed to the tool
    response,    \* execute: what the call returned (NoResponse before it)
    first,       \* execute: the earlier call of a two-call scenario
    pc,          \* engine scenario position
    u_value,     \* unit functions: the f64 input
    u_unit,      \* unit functions: the unit name
    u_base,      \* unit functions: result of to_base_unit
    u_back,      \* unit functions: result of from_base_unit
    u_pc,        \* unit functions scenario position
    stdin,       \* main: the lines not yet read
    stdout,      \* main: the lines written so far (the last may be cut)
    stderr,      \* main: the parse reports printed so far
    journal,     \* main: what happened to each line read (history)
    main_pc      \* main: "starting", "running", "exit_ok" (status 0),
                 \* "exit_err" (status 1) or "panic" (status 101)

engine_vars == <<arguments, response, first, pc>>
unit_vars == <<u_value, u_unit, u_base, u_back, u_pc>>
main_vars == <<stdin, stdout, stderr, journal, main_pc>>
vars == <<engine_vars, unit_vars, main_vars>>

(***************************************************************************)
(* f64: IEEE-754 binary64 arithmetic, round to nearest, ties to even       *)
(*                                                                         *)
(* A number is sign, mantissa, exponent: (-1)^neg * M * 2^e, with M = 0    *)
(* (and e = 0, neg = FALSE) for zero and 2^52 <= M < 2^53 otherwise.  M is *)
(* kept in four limbs of 14 bits, least significant first, so that every   *)
(* intermediate product stays inside TLC's integers.                       *)
(***************************************************************************)
Limb == 128 * 128

Pow2(k) ==
    <<1, 2, 4, 8, 16, 32, 64, 128, 256, 512, 1024, 2048, 4096, 8192,
      16384>>[k + 1]

RECURSIVE Pow(_, _)
Pow(b, e) == IF e = 0 THEN 1 ELSE b * Pow(b, e - 1)

\* Op applied to the values of its operands, each evaluated once.
Once(a, Op(_)) == CHOOSE r \in {Op(x) : x \in {a}} : TRUE

Once2(a, b, Op(_, _)) == CHOOSE r \in {Op(x, y) : x \in {a}, y \in {b}} : TRUE

Zero == [neg |-> FALSE, m |-> <<0, 0, 0, 0>>, e |-> 0]

IsZero(a) == a.m = <<0, 0, 0, 0>>

\* x >= y for limb sequences of the same length, compared from limb i down.
RECURSIVE GeqFrom(_, _, _)
GeqFrom(x, y, i) ==
    IF i = 0 THEN TRUE
    ELSE IF x[i] # y[i] THEN x[i] > y[i]
    ELSE GeqFrom(x, y, i - 1)

GeqL(x, y) == Once2(x, y, LAMBDA u, v : GeqFrom(u, v, Len(u)))

RECURSIVE AddFrom(_, _, _, _)
AddFrom(x, y, i, carry) ==
    IF i > Len(x) THEN <<>>
    ELSE <<(x[i] + y[i] + carry) % Limb>> \o
         AddFrom(x, y, i + 1, (x[i] + y[i] + carry) \div Limb)

AddL(x, y) == Once2(x, y, LAMBDA u, v : AddFrom(u, v, 1, 0))

RECURSIVE SubFrom(_, _, _, _)
SubFrom(x, y, i, borrow) ==
    IF i > Len(x) THEN <<>>
    ELSE <<(x[i] - y[i] - borrow + Limb) % Limb>> \o
         SubFrom(x, y, i + 1, IF x[i] - y[i] - borrow < 0 THEN 1 ELSE 0)

\* x - y for x >= y.
SubL(x, y) == Once2(x, y, LAMBDA u, v : SubFrom(u, v, 1, 0))

\* x shifted right by n bits, and whether a set bit was shifted out.
Shr(x, n) ==
    Once2(x, n, LAMBDA v, bits :
        LET k == bits \div 14
            r == bits % 14
            At(i) == IF i <= Len(v) THEN v[i] ELSE 0
        IN <<[i \in 1..Len(v) |->
                 At(i + k) \div Pow2(r)
                     + (At(i + k + 1) % Pow2(r)) * Pow2(14 - r)],
             (\E i \in 1..k : At(i) # 0) \/ At(k + 1) % Pow2(r) # 0>>)

\* x shifted left by n bits (the result fits the limbs of x).
Shl(x, n) ==
    Once2(x, n, LAMBDA v, bits :
        LET k == bits \div 14
            r == bits % 14
            At(i) == IF i >= 1 /\ i <= Len(v) THEN v[i] ELSE 0
        IN [i \in 1..Len(v) |->
               (At(i - k) % Pow2(14 - r)) * Pow2(r)
                   + At(i - k - 1) \div Pow2(14 - r)])

RECURSIVE BitLen(_)
BitLen(x) == IF x = 0 THEN 0 ELSE 1 + BitLen(x \div 2)

RECURSIVE TopLimb(_, _)
TopLimb(x, i) == IF x[i] # 0 THEN i ELSE TopLimb(x, i - 1)

\* Round to nearest, ties to even: the 53-bit mantissa m with the first
\* dropped bit (guard) and whether any later dropped bit was set (sticky).
Pack(neg, m, e, guard, sticky) ==
    Once2(m, guard = 1 /\ (sticky \/ m[1] % 2 = 1), LAMBDA v, up :
        IF up
        THEN Once(AddFrom(v, <<1, 0, 0, 0>>, 1, 0), LAMBDA n :
                 IF n[4] = 2048
                 THEN [neg |-> neg, m |-> <<0, 0, 0, 1024>>, e |-> e + 1]
                 ELSE [neg |-> neg, m |-> n, e |-> e])
        ELSE [neg |-> neg, m |-> v, e |-> e])

\* The f64 nearest to (-1)^neg * s * 2^e, for a five-limb integer s whose
\* lowest bit may stand for bits already dropped below it.
Normalise(neg, s, e) ==
    Once(s, LAMBDA v :
        IF v = <<0, 0, 0, 0, 0>> THEN Zero
        ELSE Once(14 * (TopLimb(v, 5) - 1) + BitLen(v[TopLimb(v, 5)]) - 1,
                   LAMBDA p :
                 IF p <= 52
                 THEN Pack(neg, SubSeq(Shl(v, 52 - p), 1, 4), e - (52 - p),
                           0, FALSE)
                 ELSE Once(Shr(v, p - 53), LAMBDA u :
                          Pack(neg, SubSeq(Shr(u[1], 1)[1], 1, 4),
                               e + (p - 52), u[1][1] % 2, u[2]))))

\* An i32 as f64 (`32.0`, `1024.0`): exact.
Whole(i) ==
    Normalise(i < 0,
              LET a == IF i < 0 THEN -i ELSE i
              IN <<a % Limb, (a \div Limb) % Limb, a \div (Limb * Limb), 0, 0>>,
              0)

\* x * 2^k: exact.
Scale(x, k) ==
    Once(x, LAMBDA v : IF IsZero(v) THEN Zero ELSE [v EXCEPT !.e = @ + k])

\* The product of two four-limb numbers, in eight limbs.
Product(a, b) ==
    LET t0 == a[1] * b[1]
        t1 == a[1] * b[2] + a[2] * b[1] + t0 \div Limb
        t2 == a[1] * b[3] + a[2] * b[2] + a[3] * b[1] + t1 \div Limb
        t3 == a[1] * b[4] + a[2] * b[3] + a[3] * b[2] + a[4] * b[1]
                + t2 \div Limb
        t4 == a[2] * b[4] + a[3] * b[3] + a[4] * b[2] + t3 \div Limb
        t5 == a[3] * b[4] + a[4] * b[3] + t4 \div Limb
        t6 == a[4] * b[4] + t5 \div Limb
    IN <<t0 % Limb, t1 % Limb, t2 % Limb, t3 % Limb, t4 % Limb, t5 % Limb,
         t6 % Limb, t6 \div Limb>>

\* f64 multiplication.
Mul(a, b) ==
    Once2(a, b, LAMBDA x, y :
        IF IsZero(x) \/ IsZero(y) THEN Zero
        ELSE Once(Product(x.m, y.m), LAMBDA p :
                 \* the product has 106 bits (p[8] >= 128) or 105
                 LET r == IF p[8] >= 128 THEN 11 ELSE 10
                     D == Pow2(r)
                     U == Pow2(14 - r)
                     H == Pow2(r - 1)
                 IN Pack(x.neg # y.neg,
                         <<p[4] \div D + (p[5] % D) * U,
                           p[5] \div D + (p[6] % D) * U,
                           p[6] \div D + (p[7] % D) * U,
                           p[7] \div D + p[8] * U>>,
                         x.e + y.e + 42 + r,
                         (p[4] \div H) % 2,
                         p[4] % H # 0 \/ p[1] # 0 \/ p[2] # 0 \/ p[3] # 0)))

\* Four limbs times 8 (a mantissa moved up to the top of its limbs).
Times8(m) == SubSeq(Shl(m \o <<0>>, 3), 1, 4)

\* Four limbs times one limb, in five limbs.
MulSmall(b, q) ==
    LET t0 == b[1] * q
        t1 == b[2] * q + t0 \div Limb
        t2 == b[3] * q + t1 \div Limb
        t3 == b[4] * q + t2 \div Limb
    IN <<t0 % Limb, t1 % Limb, t2 % Limb, t3 % Limb, t3 \div Limb>>

\* One limb of long division: for r < b (b with its top bit set), the
\* quotient limb and the remainder of r * Limb by b.  The estimate from the
\* leading limbs is the quotient limb or up to 2 above it.
DigitStep(r, b) ==
    Once2(<<0, r[1], r[2], r[3], r[4]>>,
          IF (r[4] * Limb + r[3]) \div b[4] > Limb - 1 THEN Limb - 1
          ELSE (r[4] * Limb + r[3]) \div b[4],
          LAMBDA n, qh :
        Once(IF GeqL(n, MulSmall(b, qh)) THEN qh
              ELSE IF GeqL(n, MulSmall(b, qh - 1)) THEN qh - 1
              ELSE qh - 2,
              LAMBDA q : <<q, SubSeq(SubL(n, MulSmall(b, q)), 1, 4)>>))

\* k limbs of long division: the quotient limbs, then the remainder.
RECURSIVE LongDivision(_, _, _)
LongDivision(r, b, k) ==
    IF k = 0 THEN <<r>>
    ELSE Once(DigitStep(r, b), LAMBDA s :
             <<s[1]>> \o LongDivision(s[2], b, k - 1))

\* f64 division by a non-zero number.
Div(a, b) ==
    Once2(a, b, LAMBDA x, y :
        IF IsZero(x) THEN Zero
        ELSE Once2(Times8(x.m), Times8(y.m), LAMBDA an, bn :
                 Once2(IF GeqL(an, bn) THEN 1 ELSE 0,
                       IF GeqL(an, bn) THEN SubL(an, bn) ELSE an,
                       LAMBDA q0, r0 :
                     Once(LongDivision(r0, bn, 4), LAMBDA q :
                         \* the quotient q0 q[1] q[2] q[3] q[4] has 57
                         \* bits (q0 = 1) or 56
                         LET r == 3 + q0
                             D == Pow2(r)
                             U == Pow2(14 - r)
                             H == Pow2(r - 1)
                         IN Pack(x.neg # y.neg,
                                 <<q[4] \div D + (q[3] % D) * U,
                                   q[3] \div D + (q[2] % D) * U,
                                   q[2] \div D + (q[1] % D) * U,
                                   q[1] \div D + q0 * U>>,
                                 x.e - y.e + r - 56,
                                 (q[4] \div H) % 2,
                                 q[4] % H # 0 \/ q[5] # <<0, 0, 0, 0>>)))))

\* A decimal literal of the source, 1609.344 is Dec(1609344, 3): the f64
\* nearest to it (both operands of the division are exact).
Dec(digits, places) == Div(Whole(digits), Whole(Pow(10, places)))

\* |a| < |b|
MagLess(a, b) ==
    IF IsZero(b) THEN FALSE
    ELSE IF IsZero(a) THEN TRUE
    ELSE IF a.e # b.e THEN a.e < b.e
    ELSE a.m # b.m /\ GeqL(b.m, a.m)

\* f64 addition.
Add(a, b) ==
    Once2(a, b, LAMBDA u, v :
        IF IsZero(u) THEN v
        ELSE IF IsZero(v) THEN u
        ELSE Once2(IF MagLess(u, v) THEN v ELSE u,
                   IF MagLess(u, v) THEN u ELSE v,
                   LAMBDA x, y :
                 \* three more bits below the mantissas; what is shifted
                 \* out of the smaller operand is kept as a lowest bit
                 Once2(Shl(x.m \o <<0>>, 3),
                       Shr(Shl(y.m \o <<0>>, 3), x.e - y.e),
                       LAMBDA X, ys :
                     LET Y == IF ys[2] /\ ys[1][1] % 2 = 0
                              THEN [ys[1] EXCEPT ![1] = @ + 1]
                              ELSE ys[1]
                     IN Normalise(x.neg,
                                  IF x.neg = y.neg THEN AddL(X, Y)
                                  ELSE SubL(X, Y),
                                  x.e - 3))))

Neg(a) ==
    Once(a, LAMBDA x : IF IsZero(x) THEN Zero ELSE [x EXCEPT !.neg = ~@])

\* f64 subtraction.
Sub(a, b) == Add(a, Neg(b))

FAbs(a) == [a EXCEPT !.neg = FALSE]

\* a < b
Less(a, b) ==
    Once2(a, b, LAMBDA x, y :
        IF x.neg # y.neg THEN x.neg
        ELSE IF x.neg THEN MagLess(y, x)
        ELSE MagLess(x, y))

\* `f64 as i32`: truncation toward zero, saturating at the ends of i32.
AsI32(a) ==
    Once(a, LAMBDA x :
        IF IsZero(x) \/ x.e < -52 THEN 0
        ELSE IF x.e > -22
        THEN (IF x.neg THEN -2147483647 - 1 ELSE 2147483647)
        ELSE Once(Shr(x.m, -x.e)[1], LAMBDA t :
                 IF x.neg THEN -(t[1] + t[2] * Limb + t[3] * Limb * Limb)
                 ELSE t[1] + t[2] * Limb + t[3] * Limb * Limb))

(***************************************************************************)
(* str::to_lowercase, on the ASCII letters                                 *)
(***************************************************************************)
UpperToLower ==
    [A |-> "a", B |-> "b", C |-> "c", D |-> "d", E |-> "e", F |-> "f",
     G |-> "g", H |-> "h", I |-> "i", J |-> "j", K |-> "k", L |-> "l",
     M |-> "m", N |-> "n", O |-> "o", P |-> "p", Q |-> "q", R |-> "r",
     S |-> "s", T |-> "t", U |-> "u", V |-> "v", W |-> "w", X |-> "x",
     Y |-> "y", Z |-> "z"]

LowerChar(c) == IF c \in DOMAIN UpperToLower THEN UpperToLower[c] ELSE c

RECURSIVE to_lowercase(_)
to_lowercase(s) ==
    IF Len(s) = 0 THEN ""
    ELSE LowerChar(SubSeq(s, 1, 1)) \o to_lowercase(SubSeq(s, 2, Len(s)))

(***************************************************************************)
(* UnitType and its Display                                                *)
(***************************************************************************)
UnitType ==
    {"Distance", "Volume", "Weight", "Temperature", "Digital", "Pressure",
     "Speed"}

\* impl Display for UnitType
fmt(unit_type) ==
    CASE unit_type = "Distance" -> "distance"
      [] unit_type = "Volume" -> "volume"
      [] unit_type = "Weight" -> "weight"
      [] unit_type = "Temperature" -> "temperature"
      [] unit_type = "Digital" -> "digital"
      [] unit_type = "Pressure" -> "pressure"
      [] unit_type = "Speed" -> "speed"

(***************************************************************************)
(* The Beaufort scale                                                      *)
(***************************************************************************)
\* The table of beaufort_to_mps, by force: the literals, in tenths.
beaufort_table(force) ==
    Dec(CASE force = 0 -> 0
          [] force = 1 -> 15
          [] force = 2 -> 30
          [] force = 3 -> 50
          [] force = 4 -> 75
          [] force = 5 -> 100
          [] force = 6 -> 125
          [] force = 7 -> 155
          [] force = 8 -> 185
          [] force = 9 -> 220
          [] force = 10 -> 260
          [] force = 11 -> 300
          [] force = 12 -> 350
          [] OTHER -> 350,
        1)

\* A slip: the force is the floor of the value, not its integer part.
beaufort_to_mps_floor(beaufort) ==
    Once(beaufort, LAMBDA x :
        beaufort_table(IF x.neg /\ Whole(AsI32(x)) # x THEN AsI32(x) - 1
                       ELSE AsI32(x)))

beaufort_to_mps(beaufort) == beaufort_table(AsI32(beaufort))

\* The bounds of mps_to_beaufort's chain of comparisons, in order: the
\* literals, in tenths.
BeaufortBounds == <<5, 20, 40, 60, 90, 110, 140, 170, 210, 240, 280, 330>>

\* The chain from its i-th comparison on: the force of the first bound the
\* speed is below, 12 when it is below none.
RECURSIVE mps_force(_, _)
mps_force(mps, i) ==
    IF i > Len(BeaufortBounds) THEN 12
    ELSE IF Less(mps, Dec(BeaufortBounds[i], 1)) THEN i - 1
    ELSE mps_force(mps, i + 1)

mps_to_beaufort(mps) == Once(mps, LAMBDA x : Whole(mps_force(x, 1)))

(***************************************************************************)
(* Result<..> values of the two table functions                            *)
(***************************************************************************)
NoType == "(none)"

Ok(value, unit_type) ==
    [ok |-> TRUE, value |-> value, unit_type |-> unit_type, error |-> <<>>]

Err(error) ==
    [ok |-> FALSE, value |-> Zero, unit_type |-> NoType, error |-> error]

(***************************************************************************)
(* The expressions of the match arms, as data: an arm of to_base_unit or   *)
(* from_base_unit gives its expression over `value`, Calc computes it in   *)
(* f64, operation by operation, in the order of the source.                *)
(***************************************************************************)
Val == <<"value">>

\* A literal: 1609.344 is Lit(1609344, 3), 1000.0 is Lit(1000, 0).
Lit(digits, places) == <<"literal", digits, places>>

Times(a, b) == <<"*", a, b>>

Over(a, b) == <<"/", a, b>>

Plus(a, b) == <<"+", a, b>>

Minus(a, b) == <<"-", a, b>>

\* Self::beaufort_to_mps(..) or Self::mps_to_beaufort(..)
Call(function, a) == <<function, a>>

Kibi == Lit(1024, 0)

\* The literals of the two tables, and the f64 each of them is.
Literals ==
    {<<5, 0>>, <<8, 0>>, <<9, 0>>, <<32, 0>>, <<1000, 0>>, <<1024, 0>>,
     <<1852, 0>>, <<100000, 0>>, <<101325, 0>>, <<1000000, 0>>, <<36, 1>>,
     <<27315, 2>>, <<689476, 2>>, <<133322, 3>>, <<1609344, 3>>,
     <<254, 4>>, <<3048, 4>>, <<9144, 4>>, <<44704, 5>>, <<378541, 5>>,
     <<635029, 5>>, <<236588, 6>>, <<453592, 6>>, <<473176, 6>>,
     <<514444, 6>>, <<946353, 6>>, <<283495, 7>>, <<295735, 7>>}

LiteralValue == [literal \in Literals |-> Dec(literal[1], literal[2])]

RECURSIVE Calc(_, _)
Calc(expr, value) ==
    CASE expr[1] = "value" -> value
      [] expr[1] = "literal" ->
            IF <<expr[2], expr[3]>> \in Literals
            THEN LiteralValue[<<expr[2], expr[3]>>]
            ELSE Dec(expr[2], expr[3])
      [] expr[1] = "*" -> Mul(Calc(expr[2], value), Calc(expr[3], value))
      [] expr[1] = "/" -> Div(Calc(expr[2], value), Calc(expr[3], value))
      [] expr[1] = "+" -> Add(Calc(expr[2], value), Calc(expr[3], value))
      [] expr[1] = "-" -> Sub(Calc(expr[2], value), Calc(expr[3], value))
      [] expr[1] = "beaufort_to_mps" -> beaufort_to_mps(Calc(expr[2], value))
      [] expr[1] = "mps_to_beaufort" -> mps_to_beaufort(Calc(expr[2], value))

\* The arm taken, computed on the value: Ok with the f64 result, or the Err.
Taken(arm, value) ==
    Once(arm, LAMBDA a :
        IF a.ok THEN Ok(Calc(a.value, value), a.unit_type) ELSE a)

(***************************************************************************)
(* to_base_unit: the value in the base unit of the unit's category         *)
(***************************************************************************)
\* The match of to_base_unit on the lower-cased name (unit is the name as
\* given, which the error quotes): the arm's expression and category.
to_base_match(unit_lower, unit) ==
       CASE unit_lower \in {"meters", "m"} -> Ok(Val, "Distance")
         [] unit_lower \in {"kilometers", "km"} ->
                Ok(Times(Val, Lit(1000, 0)), "Distance")
         [] unit_lower \in {"miles", "mi"} ->
                Ok(Times(Val, Lit(1609344, 3)), "Distance")
         [] unit_lower \in {"feet", "ft"} ->
                Ok(Times(Val, Lit(3048, 4)), "Distance")
         [] unit_lower \in {"inches", "in"} ->
                Ok(Times(Val, Lit(254, 4)), "Distance")
         [] unit_lower \in {"yards", "yd"} ->
                Ok(Times(Val, Lit(9144, 4)), "Distance")
         [] unit_lower \in {"nautical_miles", "nmi"} ->
                Ok(Times(Val, Lit(1852, 0)), "Distance")

         [] unit_lower \in {"liters", "l"} -> Ok(Val, "Volume")
         [] unit_lower \in {"milliliters", "ml"} ->
                Ok(Over(Val, Lit(1000, 0)), "Volume")
         [] unit_lower \in {"gallons", "gal"} ->
                Ok(Times(Val, Lit(378541, 5)), "Volume")
         [] unit_lower \in {"quarts", "qt"} ->
                Ok(Times(Val, Lit(946353, 6)), "Volume")
         [] unit_lower \in {"pints", "pt"} ->
                Ok(Times(Val, Lit(473176, 6)), "Volume")
         [] unit_lower \in {"cups"} ->
                Ok(Times(Val, Lit(236588, 6)), "Volume")
         [] unit_lower \in {"fluid_ounces", "fl_oz"} ->
                Ok(Times(Val, Lit(295735, 7)), "Volume")

         [] unit_lower \in {"kilograms", "kg"} -> Ok(Val, "Weight")
         [] unit_lower \in {"grams", "g"} ->
                Ok(Over(Val, Lit(1000, 0)), "Weight")
         [] unit_lower \in {"pounds", "lb", "lbs"} ->
                Ok(Times(Val, Lit(453592, 6)), "Weight")
         [] unit_lower \in {"ounces", "oz"} ->
                Ok(Times(Val, Lit(283495, 7)), "Weight")
         [] unit_lower \in {"stones", "st"} ->
                Ok(Times(Val, Lit(635029, 5)), "Weight")

         [] unit_lower \in {"celsius", "c"} -> Ok(Val, "Temperature")
         [] unit_lower \in {"fahrenheit", "f"} ->
                Ok(Over(Times(Minus(Val, Lit(32, 0)), Lit(5, 0)), Lit(9, 0)),
                   "Temperature")
         [] unit_lower \in {"kelvin", "k"} ->
                Ok(Minus(Val, Lit(27315, 2)), "Temperature")

         [] unit_lower \in {"bytes", "b"} -> Ok(Val, "Digital")
         [] unit_lower \in {"kilobytes", "kb"} ->
                Ok(Times(Val, Kibi), "Digital")
         [] unit_lower \in {"megabytes", "mb"} ->
                Ok(Times(Times(Val, Kibi), Kibi), "Digital")
         [] unit_lower \in {"gigabytes", "gb"} ->
                Ok(Times(Times(Times(Val, Kibi), Kibi), Kibi), "Digital")
         [] unit_lower \in {"terabytes", "tb"} ->
                Ok(Times(Times(Times(Times(Val, Kibi), Kibi), Kibi), Kibi),
                   "Digital")
         [] unit_lower \in {"bits"} -> Ok(Over(Val, Lit(8, 0)), "Digital")
         [] unit_lower \in {"kilobits", "kbit"} ->
                Ok(Over(Times(Val, Kibi), Lit(8, 0)), "Digital")
         [] unit_lower \in {"megabits", "mbit"} ->
                Ok(Over(Times(Times(Val, Kibi), Kibi), Lit(8, 0)), "Digital")
         [] unit_lower \in {"gigabits", "gbit"} ->
                Ok(Over(Times(Times(Times(Val, Kibi), Kibi), Kibi), Lit(8, 0)),
                   "Digital")

         [] unit_lower \in {"pascal", "pa"} -> Ok(Val, "Pressure")
         [] unit_lower \in {"kilopascal", "kpa"} ->
                Ok(Times(Val, Lit(1000, 0)), "Pressure")
         [] unit_lower \in {"megapascal", "mpa"} ->
                Ok(Times(Val, Lit(1000000, 0)), "Pressure")
         [] unit_lower \in {"bar"} ->
                Ok(Times(Val, Lit(100000, 0)), "Pressure")
         [] unit_lower \in {"psi"} ->
                Ok(Times(Val, Lit(689476, 2)), "Pressure")
         [] unit_lower \in {"atmosphere", "atm"} ->
                Ok(Times(Val, Lit(101325, 0)), "Pressure")
         [] unit_lower \in {"torr"} ->
                Ok(Times(Val, Lit(133322, 3)), "Pressure")
         [] unit_lower \in {"mmhg"} ->
                Ok(Times(Val, Lit(133322, 3)), "Pressure")

         [] unit_lower \in {"meters_per_second", "mps", "m/s"} ->
                Ok(Val, "Speed")
         [] unit_lower \in {"kilometers_per_hour", "kph", "km/h"} ->
                Ok(Over(Val, Lit(36, 1)), "Speed")
         [] unit_lower \in {"miles_per_hour", "mph"} ->
                Ok(Times(Val, Lit(44704, 5)), "Speed")
         [] unit_lower \in {"knots", "kt"} ->
                Ok(Times(Val, Lit(514444, 6)), "Speed")
         [] unit_lower \in {"feet_per_second", "fps", "ft/s"} ->
                Ok(Times(Val, Lit(3048, 4)), "Speed")
         [] unit_lower \in {"beaufort"} ->
                Ok(Call("beaufort_to_mps", Val), "Speed")

         [] OTHER -> Err(<<"Unsupported unit:", unit>>)

\* A slip: a digit of the miles factor is lost (1609.34 for 1609.344).
to_base_unit_miles_typo(value, unit) ==
    Taken(IF to_lowercase(unit) \in {"miles", "mi"}
          THEN Ok(Times(Val, Lit(160934, 2)), "Distance")
          ELSE to_base_match(to_lowercase(unit), unit),
          value)

\* A slip: the ratio of the Fahrenheit degree is inverted (9/5 for 5/9).
to_base_unit_fahrenheit_slip(value, unit) ==
    Taken(IF to_lowercase(unit) \in {"fahrenheit", "f"}
          THEN Ok(Over(Times(Minus(Val, Lit(32, 0)), Lit(9, 0)), Lit(5, 0)),
                  "Temperature")
          ELSE to_base_match(to_lowercase(unit), unit),
          value)

\* A slip: the name is matched as given, not lower-cased.
to_base_unit_exact_case(value, unit) == Taken(to_base_match(unit, unit), value)

to_base_unit(value, unit) ==
    Taken(to_base_match(to_lowercase(unit), unit), value)

(***************************************************************************)
(* from_base_unit: a base-unit value in the unit, for the given category   *)
(***************************************************************************)
\* The match of from_base_unit on (lower-cased name, category): the arm's
\* expression.
from_base_match(unit_lower, unit_type) ==
    LET Is(names, type) == unit_lower \in names /\ unit_type = type
    IN CASE Is({"meters", "m"}, "Distance") -> Ok(Val, unit_type)
         [] Is({"kilometers", "km"}, "Distance") ->
                Ok(Over(Val, Lit(1000, 0)), unit_type)
         [] Is({"miles", "mi"}, "Distance") ->
                Ok(Over(Val, Lit(1609344, 3)), unit_type)
         [] Is({"feet", "ft"}, "Distance") ->
                Ok(Over(Val, Lit(3048, 4)), unit_type)
         [] Is({"inches", "in"}, "Distance") ->
                Ok(Over(Val, Lit(254, 4)), unit_type)
         [] Is({"yards", "yd"}, "Distance") ->
                Ok(Over(Val, Lit(9144, 4)), unit_type)
         [] Is({"nautical_miles", "nmi"}, "Distance") ->
                Ok(Over(Val, Lit(1852, 0)), unit_type)

         [] Is({"liters", "l"}, "Volume") -> Ok(Val, unit_type)
         [] Is({"milliliters", "ml"}, "Volume") ->
                Ok(Times(Val, Lit(1000, 0)), unit_type)
         [] Is({"gallons", "gal"}, "Volume") ->
                Ok(Over(Val, Lit(378541, 5)), unit_type)
         [] Is({"quarts", "qt"}, "Volume") ->
                Ok(Over(Val, Lit(946353, 6)), unit_type)
         [] Is({"pints", "pt"}, "Volume") ->
                Ok(Over(Val, Lit(473176, 6)), unit_type)
         [] Is({"cups"}, "Volume") ->
                Ok(Over(Val, Lit(236588, 6)), unit_type)
         [] Is({"fluid_ounces", "fl_oz"}, "Volume") ->
                Ok(Over(Val, Lit(295735, 7)), unit_type)

         [] Is({"kilograms", "kg"}, "Weight") -> Ok(Val, unit_type)
         [] Is({"grams", "g"}, "Weight") ->
                Ok(Times(Val, Lit(1000, 0)), unit_type)
         [] Is({"pounds", "lb", "lbs"}, "Weight") ->
                Ok(Over(Val, Lit(453592, 6)), unit_type)
         [] Is({"ounces", "oz"}, "Weight") ->
                Ok(Over(Val, Lit(283495, 7)), unit_type)
         [] Is({"stones", "st"}, "Weight") ->
                Ok(Over(Val, Lit(635029, 5)), unit_type)

         [] Is({"celsius", "c"}, "Temperature") -> Ok(Val, unit_type)
         [] Is({"fahrenheit", "f"}, "Temperature") ->
                Ok(Plus(Over(Times(Val, Lit(9, 0)), Lit(5, 0)), Lit(32, 0)),
                   unit_type)
         [] Is({"kelvin", "k"}, "Temperature") ->
                Ok(Plus(Val, Lit(27315, 2)), unit_type)

         [] Is({"bytes", "b"}, "Digital") -> Ok(Val, unit_type)
         [] Is({"kilobytes", "kb"}, "Digital") ->
                Ok(Over(Val, Kibi), unit_type)
         [] Is({"megabytes", "mb"}, "Digital") ->
                Ok(Over(Val, Times(Kibi, Kibi)), unit_type)
         [] Is({"gigabytes", "gb"}, "Digital") ->
                Ok(Over(Val, Times(Times(Kibi, Kibi), Kibi)), unit_type)
         [] Is({"terabytes", "tb"}, "Digital") ->
                Ok(Over(Val, Times(Times(Times(Kibi, Kibi), Kibi), Kibi)),
                   unit_type)
         [] Is({"bits"}, "Digital") -> Ok(Times(Val, Lit(8, 0)), unit_type)
         [] Is({"kilobits", "kbit"}, "Digital") ->
                Ok(Over(Times(Val, Lit(8, 0)), Kibi), unit_type)
         [] Is({"megabits", "mbit"}, "Digital") ->
                Ok(Over(Times(Val, Lit(8, 0)), Times(Kibi, Kibi)), unit_type)
         [] Is({"gigabits", "gbit"}, "Digital") ->
                Ok(Over(Times(Val, Lit(8, 0)), Times(Times(Kibi, Kibi), Kibi)),
                   unit_type)

         [] Is({"pascal", "pa"}, "Pressure") -> Ok(Val, unit_type)
         [] Is({"kilopascal", "kpa"}, "Pressure") ->
                Ok(Over(Val, Lit(1000, 0)), unit_type)
         [] Is({"megapascal", "mpa"}, "Pressure") ->
                Ok(Over(Val, Lit(1000000, 0)), unit_type)
         [] Is({"bar"}, "Pressure") ->
                Ok(Over(Val, Lit(100000, 0)), unit_type)
         [] Is({"psi"}, "Pressure") ->
                Ok(Over(Val, Lit(689476, 2)), unit_type)
         [] Is({"atmosphere", "atm"}, "Pressure") ->
                Ok(Over(Val, Lit(101325, 0)), unit_type)
         [] Is({"torr"}, "Pressure") ->
                Ok(Over(Val, Lit(133322, 3)), unit_type)
         [] Is({"mmhg"}, "Pressure") ->
                Ok(Over(Val, Lit(133322, 3)), unit_type)

         [] Is({"meters_per_second", "mps", "m/s"}, "Speed") ->
                Ok(Val, unit_type)
         [] Is({"kilometers_per_hour", "kph", "km/h"}, "Speed") ->
                Ok(Times(Val, Lit(36, 1)), unit_type)
         [] Is({"miles_per_hour", "mph"}, "Speed") ->
                Ok(Over(Val, Lit(44704, 5)), unit_type)
         [] Is({"knots", "kt"}, "Speed") ->
                Ok(Over(Val, Lit(514444, 6)), unit_type)
         [] Is({"feet_per_second", "fps", "ft/s"}, "Speed") ->
                Ok(Over(Val, Lit(3048, 4)), unit_type)
         [] Is({"beaufort"}, "Speed") ->
                Ok(Call("mps_to_beaufort", Val), unit_type)

         [] OTHER ->
                Err(<<"Unsupported unit:", unit_lower, "for type:",
                      fmt(unit_type)>>)

\* A slip: the match looks at the name only, whatever the category.
from_base_unit_any_type(value, unit, unit_type) ==
    LET accepting == {type \in UnitType :
                         from_base_match(to_lowercase(unit), type).ok}
    IN Taken(IF accepting = {}
             THEN from_base_match(to_lowercase(unit), unit_type)
             ELSE from_base_match(to_lowercase(unit),
                                  CHOOSE type \in accepting : TRUE),
             value)

\* A slip: two digits of the feet factor are swapped (0.3084 for 0.3048).
from_base_unit_feet_typo(value, unit, unit_type) ==
    Taken(IF to_lowercase(unit) \in {"feet", "ft"} /\ unit_type = "Distance"
          THEN Ok(Over(Val, Lit(3084, 4)), unit_type)
          ELSE from_base_match(to_lowercase(unit), unit_type),
          value)

\* A slip: the alias "lbs" is missing from this table.
from_base_unit_no_lbs(value, unit, unit_type) ==
    Taken(from_base_match(IF to_lowercase(unit) = "lbs" THEN "(no arm)"
                          ELSE to_lowercase(unit),
                          unit_type),
          value)

from_base_unit(value, unit, unit_type) ==
    Taken(from_base_match(to_lowercase(unit), unit_type), value)

(***************************************************************************)
(* serde_json::Value, Option<Value> and the deserialisation of             *)
(* UnitConversionParams                                                    *)
(***************************************************************************)
JNumber(x) == [t |-> "number", num |-> x, str |-> ""]
JString(x) == [t |-> "string", num |-> Zero, str |-> x]
JNull == [t |-> "null", num |-> Zero, str |-> ""]

None == [some |-> FALSE, shape |-> "none", fields |-> <<>>, items |-> <<>>]
SomeObject(fields) ==
    [some |-> TRUE, shape |-> "object", fields |-> fields, items |-> <<>>]
SomeArray(items) ==
    [some |-> TRUE, shape |-> "array", fields |-> <<>>, items |-> items]
SomeScalar(item) ==
    [some |-> TRUE, shape |-> "scalar", fields |-> <<>>, items |-> <<item>>]

\* struct UnitConversionParams: the fields in declaration order, each with
\* the JSON type its Rust type deserialises from.
ParamFields == <<"value", "from_unit", "to_unit">>
FieldType(field) == IF field = "value" THEN "number" ELSE "string"

NoParams == [value |-> Zero, from_unit |-> "", to_unit |-> ""]

\* serde_json's Map iterates its keys in sorted order.
SortedFields == <<"from_unit", "to_unit", "value">>

\* serde_json::from_value::<UnitConversionParams>: an object is read key by
\* key (unknown keys are skipped, a value of the wrong type fails at once, a
\* field never met is missing), an array is read positionally and must hold
\* exactly the three fields, anything else is not a struct.
from_value(v) ==
    LET Fail(error) == [ok |-> FALSE, params |-> NoParams, error |-> error]
        Done(x, f, t) ==
            [ok |-> TRUE,
             params |-> [value |-> x.num, from_unit |-> f.str,
                         to_unit |-> t.str],
             error |-> <<>>]
    IN IF v.shape = "object"
       THEN LET present == DOMAIN v.fields
                wrong == {i \in 1..3 :
                             /\ SortedFields[i] \in present
                             /\ v.fields[SortedFields[i]].t
                                  # FieldType(SortedFields[i])}
                absent == {i \in 1..3 : ParamFields[i] \notin present}
                least(S) == CHOOSE i \in S : \A j \in S : i <= j
            IN IF wrong # {}
               THEN Fail(<<"invalid type", SortedFields[least(wrong)]>>)
               ELSE IF absent # {}
               THEN Fail(<<"missing field", ParamFields[least(absent)]>>)
               ELSE Done(v.fields["value"], v.fields["from_unit"],
                         v.fields["to_unit"])
       ELSE IF v.shape = "array"
       THEN LET n == Len(v.items)
                wrong == {i \in 1..3 :
                             i <= n /\ v.items[i].t # FieldType(ParamFields[i])}
                least(S) == CHOOSE i \in S : \A j \in S : i <= j
            IN IF wrong # {}
               THEN Fail(<<"invalid type", ParamFields[least(wrong)]>>)
               ELSE IF n # 3
               THEN Fail(<<"invalid length">>)
               ELSE Done(v.items[1], v.items[2], v.items[3])
       ELSE Fail(<<"invalid type", "expected struct UnitConversionParams">>)

(***************************************************************************)
(* Result<Vec<ToolContent>> and the texts execute builds                   *)
(***************************************************************************)
\* ToolContent::Text whose text is a message.
Text(words) == [type |-> "text", words |-> words, json |-> <<>>]

\* ToolContent::Text whose text is a serialised JSON object.
JsonText(object) == [type |-> "text", words |-> <<>>, json |-> <<object>>]

OkContent(content) == [ok |-> TRUE, content |-> content, error |-> <<>>]

NoResponse == [ok |-> FALSE, content |-> <<>>, error |-> <<"not called">>]

\* The unit list of each category in the target-unit message.
SupportedUnits(unit_type) ==
    CASE unit_type = "Distance" ->
             <<"meters", "kilometers", "miles", "feet", "inches", "yards",
               "nautical_miles">>
      [] unit_type = "Volume" ->
             <<"liters", "milliliters", "gallons", "quarts", "pints", "cups",
               "fluid_ounces">>
      [] unit_type = "Weight" ->
             <<"kilograms", "grams", "pounds", "ounces", "stones">>
      [] unit_type = "Temperature" -> <<"celsius", "fahrenheit", "kelvin">>
      [] unit_type = "Digital" ->
             <<"bytes", "kilobytes", "megabytes", "gigabytes", "terabytes",
               "bits", "kilobits", "megabits", "gigabits">>
      [] unit_type = "Pressure" ->
             <<"pascal", "kilopascal", "megapascal", "bar", "psi",
               "atmosphere", "torr", "mmhg">>
      [] unit_type = "Speed" ->
             <<"meters_per_second", "kilometers_per_hour", "miles_per_hour",
               "knots", "feet_per_second", "beaufort">>

\* arguments is None.
MissingArguments ==
    OkContent(<<Text(
      <<"Error", "Missing", "arguments", "for", "unit", "conversion",
        "To", "use", "this", "tool", "please", "provide",
        "value", "The", "numeric", "value", "to", "convert", "e.g.", "10",
        "from_unit", "The", "source", "unit", "e.g.", "meters", "pounds",
        "celsius",
        "to_unit", "The", "target", "unit", "e.g.", "feet", "kilograms",
        "fahrenheit",
        "Example", "value", "10", "from_unit", "meters", "to_unit",
        "feet">>)>>)

\* A slip: the deserialisation error is propagated (`?`) instead of told.
InvalidArguments_propagated(error) ==
    [ok |-> FALSE, content |-> <<>>, error |-> error]

\* The arguments do not deserialise.
InvalidArguments(error) ==
    OkContent(<<Text(
      <<"Error", "Invalid", "arguments", "for", "unit", "conversion",
        "Parsing", "failed", "with">> \o error \o
      <<"Required", "parameters",
        "value", "A", "number", "e.g.", "10.5",
        "from_unit", "A", "string", "specifying", "the", "source", "unit",
        "to_unit", "A", "string", "specifying", "the", "target", "unit",
        "Please", "ensure", "your", "JSON", "is", "properly", "formatted",
        "and", "includes", "all", "required", "fields">>)>>)

\* to_base_unit failed on from_unit.
UnrecognizedSource(params) ==
    OkContent(<<Text(
      <<"Error", "Unrecognized", "source", "unit", params.from_unit,
        "Supported", "units", "by", "category",
        "Distance", "meters", "kilometers", "miles", "feet", "inches",
        "yards", "nautical_miles",
        "Volume", "liters", "milliliters", "gallons", "quarts", "pints",
        "cups", "fluid_ounces",
        "Weight", "kilograms", "grams", "pounds", "ounces", "stones",
        "Temperature", "celsius", "fahrenheit", "kelvin",
        "Digital", "bytes", "kilobytes", "megabytes", "gigabytes",
        "terabytes", "bits", "kilobits", "megabits", "gigabits",
        "Pressure", "pascal", "kilopascal", "megapascal", "bar", "psi",
        "atmosphere", "torr", "mmhg",
        "Speed", "meters_per_second", "kilometers_per_hour",
        "miles_per_hour", "knots", "feet_per_second", "beaufort",
        "Note", "Units", "are", "case-insensitive", "Try", "using", "the",
        "full", "unit", "name", "or", "common", "abbreviations">>)>>)

\* A slip: the message does not say which category the source unit is of.
CannotConvert_unnamed(params, unit_type) ==
    OkContent(<<Text(
      <<"Error", "Cannot", "convert", "from", params.from_unit, "to",
        params.to_unit>>)>>)

\* from_base_unit failed on to_unit for the source unit's category.
CannotConvert(params, unit_type) ==
    OkContent(<<Text(
      <<"Error", "Cannot", "convert", "from", params.from_unit,
        fmt(unit_type), "to", params.to_unit,
        "The", "target", "unit", params.to_unit, "is", "either",
        "1", "Not", "supported", "for", fmt(unit_type), "conversions",
        "2", "From", "a", "different", "unit", "category",
        "3", "Misspelled",
        "Supported", fmt(unit_type), "units">>
      \o SupportedUnits(unit_type) \o
      <<"Note", "You", "can", "only", "convert", "between", "units", "of",
        "the", "same", "type", "e.g.", "distance", "to", "distance",
        "weight", "to", "weight">>)>>)

\* The success payload: response_json.to_string().
Converted(params, result, unit_type) ==
    OkContent(<<JsonText(
      [original |-> <<params.value, params.from_unit>>,
       converted |-> <<result, params.to_unit>>,
       value |-> result,
       unit_type |-> fmt(unit_type)])>>)

(***************************************************************************)
(* UnitConversion::execute                                                 *)
(***************************************************************************)
execute(args) ==
    IF ~args.some THEN MissingArguments
    ELSE Once(from_value(args), LAMBDA parsed :
             IF ~parsed.ok THEN InvalidArguments(parsed.error)
             ELSE Once(to_base_unit(parsed.params.value,
                                    parsed.params.from_unit),
                       LAMBDA base :
                      IF ~base.ok THEN UnrecognizedSource(parsed.params)
                      ELSE Once(from_base_unit(base.value,
                                               parsed.params.to_unit,
                                               base.unit_type),
                                LAMBDA result :
                               IF ~result.ok
                               THEN CannotConvert(parsed.params,
                                                  base.unit_type)
                               ELSE Converted(parsed.params, result.value,
                                              base.unit_type))))

(***************************************************************************)
(* The calls the model makes: bounded sets of inputs                       *)
(***************************************************************************)
\* Values are the halves up to MaxHalves/2 either way, a fraction inside the
\* Beaufort scale and an integer above it.
MaxHalves == 1

Values ==
    {Scale(Whole(n), -1) : n \in -MaxHalves..MaxHalves}
        \cup {Dec(35, 1), Whole(13)}

\* The catalog as the specification gives it: per category, the units, each
\* the set of its names (in lower case).
Catalog ==
    [Distance |->
        {{"meters", "m"}, {"kilometers", "km"}, {"miles", "mi"},
         {"feet", "ft"}, {"inches", "in"}, {"yards", "yd"},
         {"nautical_miles", "nmi"}},
     Volume |->
        {{"liters", "l"}, {"milliliters", "ml"}, {"gallons", "gal"},
         {"quarts", "qt"}, {"pints", "pt"}, {"cups"},
         {"fluid_ounces", "fl_oz"}},
     Weight |->
        {{"kilograms", "kg"}, {"grams", "g"}, {"pounds", "lb", "lbs"},
         {"ounces", "oz"}, {"stones", "st"}},
     Temperature |->
        {{"celsius", "c"}, {"fahrenheit", "f"}, {"kelvin", "k"}},
     Digital |->
        {{"bytes", "b"}, {"kilobytes", "kb"}, {"megabytes", "mb"},
         {"gigabytes", "gb"}, {"terabytes", "tb"}, {"bits"},
         {"kilobits", "kbit"}, {"megabits", "mbit"}, {"gigabits", "gbit"}},
     Pressure |->
        {{"pascal", "pa"}, {"kilopascal", "kpa"}, {"megapascal", "mpa"},
         {"bar"}, {"psi"}, {"atmosphere", "atm"}, {"torr"}, {"mmhg"}},
     Speed |->
        {{"meters_per_second", "mps", "m/s"},
         {"kilometers_per_hour", "kph", "km/h"}, {"miles_per_hour", "mph"},
         {"knots", "kt"}, {"feet_per_second", "fps", "ft/s"}, {"beaufort"}}]

CategoryNames(category) == UNION Catalog[category]

CatalogNames == UNION {CategoryNames(category) : category \in UnitType}

\* Names outside the catalog: another unit, a singular, untrimmed white
\* space, the spelling of the tool description, the empty string.
OtherNames == {"parsecs", "meter", " meters", "fluid ounces", ""}

UnitNames == CatalogNames \cup OtherNames

\* The other casings of a name.
LowerToUpper ==
    [a |-> "A", b |-> "B", c |-> "C", d |-> "D", e |-> "E", f |-> "F",
     g |-> "G", h |-> "H", i |-> "I", j |-> "J", k |-> "K", l |-> "L",
     m |-> "M", n |-> "N", o |-> "O", p |-> "P", q |-> "Q", r |-> "R",
     s |-> "S", t |-> "T", u |-> "U", v |-> "V", w |-> "W", x |-> "X",
     y |-> "Y", z |-> "Z"]

UpperChar(c) == IF c \in DOMAIN LowerToUpper THEN LowerToUpper[c] ELSE c

RECURSIVE Upper(_)
Upper(s) ==
    IF Len(s) = 0 THEN ""
    ELSE UpperChar(SubSeq(s, 1, 1)) \o Upper(SubSeq(s, 2, Len(s)))

Title(s) ==
    IF Len(s) = 0 THEN ""
    ELSE UpperChar(SubSeq(s, 1, 1)) \o SubSeq(s, 2, Len(s))

\* The last letter in upper case: "meterS".
Tail1(s) ==
    IF Len(s) = 0 THEN ""
    ELSE SubSeq(s, 1, Len(s) - 1) \o UpperChar(SubSeq(s, Len(s), Len(s)))

Casings == {"lower", "UPPER", "Title", "lasT"}

\* The casings of <<from_unit, to_unit>> a repeated call uses.
CasingPairs ==
    {<<"UPPER", "Title">>, <<"lasT", "UPPER">>}

Recased(s, casing) ==
    CASE casing = "lower" -> s
      [] casing = "UPPER" -> Upper(s)
      [] casing = "Title" -> Title(s)
      [] casing = "lasT" -> Tail1(s)

Request(x, f, t) ==
    SomeObject([value |-> JNumber(x), from_unit |-> JString(f),
                to_unit |-> JString(t)])

WellFormed == {Request(x, f, t) : x \in Values, f \in UnitNames, t \in UnitNames}

\* Bundles that are absent, not a struct, lack a field, hold a field of the
\* wrong type, hold an extra key, or are positional.
OtherBundles ==
    LET x == JNumber(Whole(10))
        f == JString("meters")
        t == JString("feet")
    IN {None,
        SomeScalar(JNull), SomeScalar(x), SomeScalar(f),
        SomeObject(<<>>),
        SomeObject([from_unit |-> f, to_unit |-> t]),
        SomeObject([value |-> x, to_unit |-> t]),
        SomeObject([value |-> x, from_unit |-> f]),
        SomeObject([value |-> JString("10"), from_unit |-> f, to_unit |-> t]),
        SomeObject([value |-> x, from_unit |-> JNull, to_unit |-> t]),
        SomeObject([value |-> x, from_unit |-> f, to_unit |-> x]),
        SomeObject([value |-> JNull, from_unit |-> f]),
        SomeObject([value |-> x, from_unit |-> f, to_unit |-> t,
                    precision |-> x]),
        SomeArray(<<>>), SomeArray(<<x, f>>), SomeArray(<<f, x, t>>),
        SomeArray(<<x, f, t>>), SomeArray(<<x, f, t, t>>)}

Bundles == WellFormed \cup OtherBundles

NoCall == [arguments |-> None, response |-> NoResponse]

(***************************************************************************)
(* Reading a response                                                      *)
(***************************************************************************)
\* Ok with exactly one text payload.
OneText(r) == r.ok /\ Len(r.content) = 1 /\ r.content[1].type = "text"

\* The payload is the success object, whose "value" is the number.
IsSuccess(r) == OneText(r) /\ Len(r.content[1].json) = 1

IsMessage(r) == OneText(r) /\ Len(r.content[1].json) = 0

Payload(r) == r.content[1].json[1]

Words(r) == r.content[1].words

Mentions(r, word) == \E i \in 1..Len(Words(r)) : Words(r)[i] = word

(***************************************************************************)
(* The engine: one call of execute, and a second call that depends on it   *)
(***************************************************************************)
EngineIdle ==
    /\ arguments = None
    /\ response = NoResponse
    /\ first = NoCall
    /\ pc = "idle"

UnitIdle ==
    /\ u_value = Zero
    /\ u_unit = ""
    /\ u_base = Err(<<>>)
    /\ u_back = Err(<<>>)
    /\ u_pc = "idle"

MainIdle ==
    /\ stdin = <<>>
    /\ stdout = <<>>
    /\ stderr = <<>>
    /\ journal = <<>>
    /\ main_pc = "idle"

Init ==
    /\ arguments \in Bundles
    /\ response = NoResponse
    /\ first = NoCall
    /\ pc = "ready"
    /\ UnitIdle
    /\ MainIdle

\* The tool is called with the arguments.
Execute ==
    /\ pc = "ready"
    /\ response' = execute(arguments)
    /\ pc' = "done"
    /\ UNCHANGED <<arguments, first, unit_vars, main_vars>>

\* After a conversion, the tool is called again to convert the result back.
ConvertBack ==
    /\ pc = "done"
    /\ IsSuccess(response)
    /\ LET params == from_value(arguments).params
           back == Request(Payload(response).value, params.to_unit,
                           params.from_unit)
       IN /\ arguments' = back
          /\ response' = execute(back)
    /\ first' = [arguments |-> arguments, response |-> response]
    /\ pc' = "back"
    /\ UNCHANGED <<unit_vars, main_vars>>

\* After a call, the tool is called again with the unit names in another
\* casing.
ExecuteRecased ==
    /\ pc = "done"
    /\ from_value(arguments).ok
    /\ \E casing \in CasingPairs :
         LET params == from_value(arguments).params
             again == Request(params.value,
                              Recased(params.from_unit, casing[1]),
                              Recased(params.to_unit, casing[2]))
         IN /\ again # arguments
            /\ arguments' = again
            /\ response' = execute(again)
    /\ first' = [arguments |-> arguments, response |-> response]
    /\ pc' = "recased"
    /\ UNCHANGED <<unit_vars, main_vars>>

Next == Execute \/ ConvertBack \/ ExecuteRecased

Spec == Init /\ [][Next]_vars

(***************************************************************************)
(* Claims about execute                                                    *)
(***************************************************************************)
Called == pc \in {"done", "back", "recased"}

\* The call's parameters, when the arguments deserialise.
Parsed == from_value(arguments).ok
Params == from_value(arguments).params

\* The category and the unit the specification's catalog gives each of its
\* names.
CategoryOfName ==
    [name \in CatalogNames |->
        CHOOSE category \in UnitType : name \in CategoryNames(category)]

UnitOfName ==
    [name \in CatalogNames |->
        CHOOSE unit \in Catalog[CategoryOfName[name]] : name \in unit]

Supported(name) == to_lowercase(name) \in CatalogNames

\* The category of a name, case-folded.
SpecCategory(name) ==
    IF Supported(name) THEN CategoryOfName[to_lowercase(name)] ELSE NoType

\* Two names of one unit of the catalog.
SameUnit(a, b) ==
    /\ Supported(a)
    /\ Supported(b)
    /\ UnitOfName[to_lowercase(a)] = UnitOfName[to_lowercase(b)]

IsBeaufort(name) == to_lowercase(name) = "beaufort"

\* The base unit of each category, as the specification names them.
BaseUnits ==
    {"meters", "liters", "kilograms", "celsius", "bytes", "pascal",
     "meters_per_second"}

\* A name of a base unit.
IsBase(name) ==
    /\ Supported(name)
    /\ \E base \in BaseUnits : UnitOfName[to_lowercase(name)] = UnitOfName[base]

\* The floating-point tolerance of the specification: 1e-9, relative to the
\* expected value, and absolute for an expected value below 1.
Tolerance == Dec(1, 9)

One == Whole(1)

Close(actual, expected) ==
    LET size == IF Less(FAbs(expected), One) THEN One ELSE FAbs(expected)
    IN ~Less(Mul(Tolerance, size), FAbs(Sub(actual, expected)))

CrossCategory ==
    /\ Called
    /\ Parsed
    /\ Supported(Params.from_unit)
    /\ Supported(Params.to_unit)
    /\ SpecCategory(Params.from_unit) # SpecCategory(Params.to_unit)

\* C1: for every value and every two supported names of different
\* categories, execute answers with a failure text and never with the
\* success payload carrying a numeric value.
C1_CrossCategoryFails ==
    CrossCategory => IsMessage(response) /\ ~IsSuccess(response)

C1_Witness ==
    /\ pc = "done"
    /\ Parsed
    /\ Params.from_unit = "miles"
    /\ Params.to_unit = "lbs"
    /\ Params.value = Dec(35, 1)
    /\ IsMessage(response)

\* C2: execute never returns a hard error: whatever the argument bundle
\* (absent, malformed, unknown units, cross-category, valid), the result is
\* Ok with exactly one text payload.
C2_NeverHardError == Called => OneText(response)

C2_Witness ==
    /\ pc = "done"
    /\ arguments.some
    /\ ~Parsed
    /\ IsMessage(response)
    /\ Mentions(response, "missing field")

\* C3 as claimed: on a category mismatch the failure text names both the
\* source unit's category and the target unit's category, and carries no
\* numeric value.
C3_NamesBothCategories ==
    CrossCategory =>
        /\ IsMessage(response)
        /\ Mentions(response, fmt(SpecCategory(Params.from_unit)))
        /\ Mentions(response, fmt(SpecCategory(Params.to_unit)))

\* C3 as amended: on a category mismatch the failure text names the source
\* unit's category, quotes the target unit and lists the units of the source
\* category; the target unit's category occurs in it only through the fixed
\* closing example ("distance to distance, weight to weight"), that is, only
\* when that category is distance or weight.  It carries no numeric value.
C3_NamesSourceCategory ==
    CrossCategory =>
        LET source == SpecCategory(Params.from_unit)
            target == SpecCategory(Params.to_unit)
            units == SupportedUnits(source)
        IN /\ IsMessage(response)
           /\ Mentions(response, fmt(source))
           /\ Mentions(response, Params.from_unit)
           /\ Mentions(response, Params.to_unit)
           /\ \A i \in 1..Len(units) : Mentions(response, units[i])
           /\ Mentions(response, fmt(target))
                <=> target \in {"Distance", "Weight"}

C3_Witness ==
    /\ pc = "done"
    /\ Parsed
    /\ Params.from_unit = "celsius"
    /\ Params.to_unit = "gb"
    /\ IsMessage(response)
    /\ Mentions(response, "temperature")
    /\ ~Mentions(response, "digital")

\* The force a Beaufort value comes back as: its integer part inside the
\* scale, 12 outside it.
ForceOf(x) ==
    IF AsI32(x) >= 0 /\ AsI32(x) <= 12 THEN Whole(AsI32(x)) ELSE Whole(12)

IsForce(x) == x \in {Whole(i) : i \in 0..12}

\* C4 as claimed: for every supported unit, beaufort included, and every
\* value, converting from the unit to itself succeeds and returns the value
\* unchanged.
C4_Identity ==
    Called /\ Parsed /\ SameUnit(Params.from_unit, Params.to_unit) =>
        IsSuccess(response) /\ Payload(response).value = Params.value

\* C4 as amended: converting from a unit to itself always succeeds.  For a
\* base unit it returns the value unchanged; for every other unit except
\* beaufort it returns the value within the floating-point tolerance (the
\* value goes through a multiplication and a division, each rounded); for
\* beaufort it returns the force of the value (its integer part inside
\* 0..12, 12 outside), which is the value itself exactly when the value is
\* one of the forces 0..12.
C4_IdentityExceptBeaufort ==
    Called /\ Parsed /\ SameUnit(Params.from_unit, Params.to_unit) =>
        /\ IsSuccess(response)
        /\ IsBase(Params.from_unit) =>
               Payload(response).value = Params.value
        /\ ~IsBeaufort(Params.from_unit) =>
               Close(Payload(response).value, Params.value)
        /\ IsBeaufort(Params.from_unit) =>
               /\ Payload(response).value = ForceOf(Params.value)
               /\ Payload(response).value = Params.value
                    <=> IsForce(Params.value)

\* 3.5 ft to feet: 3.5 * 0.3048 / 0.3048 is 3.4999999999999996.
C4_Witness ==
    /\ pc = "done"
    /\ Parsed
    /\ Params.from_unit = "ft"
    /\ Params.to_unit = "feet"
    /\ Params.value = Dec(35, 1)
    /\ IsSuccess(response)
    /\ Payload(response).value # Dec(35, 1)
    /\ Close(Payload(response).value, Dec(35, 1))

\* The first call of a two-call scenario.
FirstParams == from_value(first.arguments).params

\* C5 as claimed: for all supported units U and V of one category and every
\* value x, converting x from U to V and the result from V back to U returns
\* x within the floating-point tolerance.
C5_Closure ==
    pc = "back" =>
        /\ IsSuccess(response)
        /\ Close(Payload(response).value, FirstParams.value)

\* C5 as amended: the same, for units U and V other than beaufort.
C5_ClosureExceptBeaufort ==
    /\ pc = "back" => IsSuccess(response)
    /\ pc = "back" /\ ~IsBeaufort(FirstParams.from_unit)
                   /\ ~IsBeaufort(FirstParams.to_unit) =>
           Close(Payload(response).value, FirstParams.value)

\* 3.5 miles to nautical miles and back.
C5_Witness ==
    /\ pc = "back"
    /\ FirstParams.from_unit = "miles"
    /\ FirstParams.to_unit = "nmi"
    /\ FirstParams.value = Dec(35, 1)
    /\ Params.from_unit = "nmi"
    /\ Params.to_unit = "miles"
    /\ ~Close(Params.value, Dec(35, 1))
    /\ IsSuccess(response)
    /\ Close(Payload(response).value, Dec(35, 1))

\* The kind of failure a message tells: its first words.
FailureKind(r) == SubSeq(Words(r), 1, 3)

\* C8: a request whose unit names differ from a lower-case request only in
\* letter case resolves the same way: it succeeds exactly when the
\* lower-case request does, then with the same value and unit_type, and it
\* fails with the same kind of failure otherwise.
C8_CaseInsensitive ==
    pc = "recased" =>
        /\ IsSuccess(response) <=> IsSuccess(first.response)
        /\ IsSuccess(response) =>
               /\ Payload(response).value = Payload(first.response).value
               /\ Payload(response).unit_type
                    = Payload(first.response).unit_type
        /\ ~IsSuccess(response) =>
               /\ IsMessage(response)
               /\ FailureKind(response) = FailureKind(first.response)

C8_Witness ==
    /\ pc = "recased"
    /\ FirstParams.from_unit = "meters"
    /\ FirstParams.to_unit = "feet"
    /\ Params.from_unit = "METERS"
    /\ Params.to_unit = "Feet"
    /\ IsSuccess(response)
    /\ Payload(response).unit_type = "distance"

\* C10: the two tables agree: a name from_base_unit accepts for a category
\* is a name to_base_unit resolves to that category, and conversely.  So,
\* once the source unit resolves, the call succeeds exactly when the target
\* name resolves to the same category, and the target-unit failure is told
\* exactly when it is unknown or of another category.
C10_TablesAgree ==
    Called /\ Parsed =>
        LET source == to_base_match(to_lowercase(Params.from_unit),
                                    Params.from_unit)
            target == to_base_match(to_lowercase(Params.to_unit),
                                    Params.to_unit)
        IN /\ source.ok = Supported(Params.from_unit)
           /\ source.ok => source.unit_type = SpecCategory(Params.from_unit)
           /\ source.ok =>
                (IsSuccess(response)
                   <=> target.ok /\ target.unit_type = source.unit_type)
           /\ source.ok /\ ~IsSuccess(response) =>
                /\ IsMessage(response)
                /\ FailureKind(response) = <<"Error", "Cannot", "convert">>
           /\ ~source.ok =>
                /\ IsMessage(response)
                /\ FailureKind(response)
                     = <<"Error", "Unrecognized", "source">>

C10_Witness ==
    /\ pc = "done"
    /\ Parsed
    /\ Params.from_unit = "st"
    /\ Params.to_unit = "lbs"
    /\ Params.value = Whole(13)
    /\ IsSuccess(response)
    /\ Payload(response).unit_type = "weight"

(***************************************************************************)
(* The unit functions on their own: to_base_unit, then from_base_unit with *)
(* the same unit                                                           *)
(***************************************************************************)
\* Values are the quarters up to MaxQuarters/4 either way: inside, below and
\* above the Beaufort scale.
MaxQuarters == 54

UnitValues == {Scale(Whole(n), -2) : n \in -MaxQuarters..MaxQuarters}

UnitInit ==
    /\ u_value \in UnitValues
    /\ u_unit \in UnitNames
    /\ u_base = Err(<<>>)
    /\ u_back = Err(<<>>)
    /\ u_pc = "ready"
    /\ EngineIdle
    /\ MainIdle

ToBase ==
    /\ u_pc = "ready"
    /\ u_base' = to_base_unit(u_value, u_unit)
    /\ u_pc' = "based"
    /\ UNCHANGED <<u_value, u_unit, u_back, engine_vars, main_vars>>

FromBase ==
    /\ u_pc = "based"
    /\ u_base.ok
    /\ u_back' = from_base_unit(u_base.value, u_unit, u_base.unit_type)
    /\ u_pc' = "returned"
    /\ UNCHANGED <<u_value, u_unit, u_base, engine_vars, main_vars>>

UnitNext == ToBase \/ FromBase

UnitSpec == UnitInit /\ [][UnitNext]_vars

\* C6: for every supported unit other than beaufort, from_base_unit undoes
\* to_base_unit, for every name of the unit: the same constant is used both
\* ways, so that from_base_unit(to_base_unit(x, U), U) is x up to the
\* rounding of the f64 operations, within the floating-point tolerance.
C6_RoundTripThroughBase ==
    u_pc = "returned" /\ ~IsBeaufort(u_unit) =>
        u_back.ok /\ Close(u_back.value, u_value)

\* -2.25 fahrenheit is -19.02... celsius and comes back.
C6_Witness ==
    /\ u_pc = "returned"
    /\ u_unit = "fahrenheit"
    /\ u_value = Scale(Whole(-9), -2)
    /\ ~Close(u_base.value, u_value)
    /\ u_back.ok
    /\ Close(u_back.value, u_value)

\* The force whose band [i, i + 1) holds a value of [0, 13).
BandOf(x) ==
    CHOOSE i \in 0..12 : ~Less(x, Whole(i)) /\ Less(x, Whole(i + 1))

\* The 13 entries of the table, for the forces 0..12, in tenths of m/s.
TableTenths == <<0, 15, 30, 50, 75, 100, 125, 155, 185, 220, 260, 300, 350>>

Entry(force) == Dec(TableTenths[force + 1], 1)

\* C9 as claimed: a force 0..12 maps to its table entry, a fractional input
\* of [0, 12) to the entry of its integer part, and every input >= 12 and
\* every negative input to 35.0 m/s.
C9_BeaufortTable ==
    u_pc \in {"based", "returned"} /\ IsBeaufort(u_unit) =>
        u_base.value =
            IF Less(u_value, Zero) \/ ~Less(u_value, Whole(12))
            THEN Whole(35)
            ELSE Entry(BandOf(u_value))

\* C9 as amended: the input is truncated toward zero, so an input of
\* (-1, 0) is the force 0 and maps to 0.0 m/s; the inputs that map to 35.0
\* m/s are those >= 12 and those <= -1.
C9_BeaufortTableTruncating ==
    u_pc \in {"based", "returned"} /\ IsBeaufort(u_unit) =>
        /\ u_base.ok
        /\ u_base.unit_type = "Speed"
        /\ u_base.value =
            IF ~Less(Whole(-1), u_value) \/ ~Less(u_value, Whole(12))
            THEN Whole(35)
            ELSE IF Less(u_value, Zero) THEN Zero
            ELSE Entry(BandOf(u_value))

C9_Witness ==
    /\ u_pc = "based"
    /\ u_unit = "beaufort"
    /\ u_value = Scale(Whole(-3), -2)
    /\ u_base.ok
    /\ u_base.value = Zero

(***************************************************************************)
(* main: the transport loop                                                *)
(***************************************************************************)
MaxLines == 3
MaxId == 2

\* A line of the input: a request (with the id its response echoes), a
\* line of text that is no request, or bytes that are not UTF-8.
Requests == {[kind |-> "request", id |-> i] : i \in 1..MaxId}
Lines ==
    Requests \cup {[kind |-> "not a request", id |-> 0],
                   [kind |-> "not UTF-8", id |-> 0]}

RECURSIVE SeqsUpTo(_, _)
SeqsUpTo(S, n) ==
    IF n = 0 THEN {<<>>}
    ELSE LET shorter == SeqsUpTo(S, n - 1)
         IN shorter \cup {Append(q, x) : q \in shorter, x \in S}

Journal(line, outcome) == [line |-> line, outcome |-> outcome]

\* What a write that fails leaves behind: write_all hands the bytes over in
\* as many write calls as it takes and fails at the first that does, so a
\* failure can come after none, some or all of the bytes of the text.
Written == {"nothing", "part", "all"}

\* A response line on stdout: `cut` is "no" for the whole line with its
\* newline, "part" for a proper prefix of the response and "all" for the
\* response without its newline.
Line(id, cut) == [response_to |-> id, cut |-> cut]

\* The report of a line that is no request, whole or cut short.
Report == "Error parsing request"
ReportCutShort == "Error parsing"

MainInit ==
    /\ stdin \in SeqsUpTo(Lines, MaxLines)
    /\ stdout = <<>>
    /\ stderr = <<>>
    /\ journal = <<>>
    /\ main_pc = "starting"
    /\ EngineIdle
    /\ UnitIdle

\* ContextServerState::new() returns Ok: main goes on to the loop.
StartUp ==
    /\ main_pc = "starting"
    /\ main_pc' = "running"
    /\ UNCHANGED <<stdin, stdout, stderr, journal, engine_vars, unit_vars>>

\* ContextServerState::new() returns Err (build() failed): `?` returns it
\* from main before a line is read.
StartUpError ==
    /\ main_pc = "starting"
    /\ main_pc' = "exit_err"
    /\ UNCHANGED <<stdin, stdout, stderr, journal, engine_vars, unit_vars>>

\* next_line() returns None: the loop ends and main returns Ok.
EndOfInput ==
    /\ main_pc = "running"
    /\ stdin = <<>>
    /\ main_pc' = "exit_ok"
    /\ UNCHANGED <<stdin, stdout, stderr, journal, engine_vars, unit_vars>>

\* next_line() returns an error (the line is not UTF-8): `?` returns it from
\* main.
ReadError ==
    /\ main_pc = "running"
    /\ stdin # <<>>
    /\ Head(stdin).kind = "not UTF-8"
    /\ stdin' = Tail(stdin)
    /\ journal' = Append(journal, Journal(Head(stdin), "read error"))
    /\ main_pc' = "exit_err"
    /\ UNCHANGED <<stdout, stderr, engine_vars, unit_vars>>

\* The line does not parse as a request: it is reported and skipped.
SkipLine ==
    /\ main_pc = "running"
    /\ stdin # <<>>
    /\ Head(stdin).kind = "not a request"
    /\ stdin' = Tail(stdin)
    /\ stderr' = Append(stderr, Report)
    /\ journal' = Append(journal, Journal(Head(stdin), "skipped"))
    /\ UNCHANGED <<stdout, main_pc, engine_vars, unit_vars>>

\* The line does not parse as a request and the report cannot be written:
\* eprintln! panics, after none or part of the report is out, and the
\* process ends.
SkipPanic ==
    /\ main_pc = "running"
    /\ stdin # <<>>
    /\ Head(stdin).kind = "not a request"
    /\ stdin' = Tail(stdin)
    /\ \E written \in Written \ {"all"} :
         stderr' = IF written = "nothing" THEN stderr
                   ELSE Append(stderr, ReportCutShort)
    /\ journal' = Append(journal, Journal(Head(stdin), "report panic"))
    /\ main_pc' = "panic"
    /\ UNCHANGED <<stdout, engine_vars, unit_vars>>

\* process_request returns Ok(Some(response)): the response is written as
\* one line and flushed.
Answer ==
    /\ main_pc = "running"
    /\ stdin # <<>>
    /\ Head(stdin).kind = "request"
    /\ stdin' = Tail(stdin)
    /\ stdout' = Append(stdout, Line(Head(stdin).id, "no"))
    /\ journal' = Append(journal, Journal(Head(stdin), "answered"))
    /\ UNCHANGED <<stderr, main_pc, engine_vars, unit_vars>>

\* process_request returns Ok(None): nothing is written.
NoAnswer ==
    /\ main_pc = "running"
    /\ stdin # <<>>
    /\ Head(stdin).kind = "request"
    /\ stdin' = Tail(stdin)
    /\ journal' = Append(journal, Journal(Head(stdin), "no response"))
    /\ UNCHANGED <<stdout, stderr, main_pc, engine_vars, unit_vars>>

\* process_request returns Err: `?` returns it from main.
HandlerError ==
    /\ main_pc = "running"
    /\ stdin # <<>>
    /\ Head(stdin).kind = "request"
    /\ stdin' = Tail(stdin)
    /\ journal' = Append(journal, Journal(Head(stdin), "handler error"))
    /\ main_pc' = "exit_err"
    /\ UNCHANGED <<stdout, stderr, engine_vars, unit_vars>>

\* process_request returns Ok(Some(response)) and serialising or writing it
\* fails: `?` returns the error from main.  The response, its newline and
\* the flush are three steps, so the failure can come with nothing written,
\* with part of the response, or with the response and no newline.
WriteError ==
    /\ main_pc = "running"
    /\ stdin # <<>>
    /\ Head(stdin).kind = "request"
    /\ stdin' = Tail(stdin)
    /\ \E written \in Written :
         stdout' = IF written = "nothing" THEN stdout
                   ELSE Append(stdout, Line(Head(stdin).id, written))
    /\ journal' = Append(journal, Journal(Head(stdin), "write error"))
    /\ main_pc' = "exit_err"
    /\ UNCHANGED <<stderr, engine_vars, unit_vars>>

MainNext ==
    \/ StartUp
    \/ StartUpError
    \/ EndOfInput
    \/ ReadError
    \/ SkipLine
    \/ SkipPanic
    \/ Answer
    \/ NoAnswer
    \/ HandlerError
    \/ WriteError

MainSpec == MainInit /\ [][MainNext]_vars

\* The response lines of the requests the journal says were answered, in
\* order.
RECURSIVE Answered(_)
Answered(j) ==
    IF j = <<>> THEN <<>>
    ELSE IF Head(j).outcome = "answered"
         THEN <<Line(Head(j).line.id, "no")>> \o Answered(Tail(j))
         ELSE Answered(Tail(j))

\* C7: for every sequence of input lines, a line that is no request
\* produces no output and does not stop the lines after it from being
\* processed, and every request is answered with exactly one response line,
\* or none when the handler defines none, in the order of the requests.
C7_TransportLoop ==
    /\ stdout = Answered(journal)
    /\ \A i \in 1..Len(journal) :
         IF journal[i].line.kind = "request"
         THEN journal[i].outcome \in {"answered", "no response"}
         ELSE journal[i].outcome = "skipped"
    /\ main_pc \in {"exit_ok", "exit_err", "panic"} => stdin = <<>>

====
